---- MODULE Spec2Model ----
(***************************************************************************)
(* A model of the flow library (layers/stribor), the ResNet flow           *)
(* (layers/GNeuralFlow), the CRU model factory (layers/CRU/models.py) and  *)
(* the CRU filter recursion of PyOmniTS, and of the construction of the    *)
(* stribor MLP (layers/stribor/stribor/net/mlp.py).                        *)
(*                                                                         *)
(* Tensors are vectors (batch of one) of exact rationals <<num, den>>.     *)
(* Quantities that the code exponentiates or that are logarithms (time,    *)
(* log_scale, diag, log-determinants) are "reals" of one of two sorts:     *)
(*   <<"int", k>>  the integer k                                           *)
(*   <<"log", q>>  the real ln(q), q a positive rational                   *)
(* so that exp, log1p, sums and the products the code forms are exact.     *)
(***************************************************************************)
EXTENDS Integers, Sequences, FiniteSets, TLC

VARIABLES
    obj, x, kw, pc, y, ld, fl, xr, il,          \* flow test bench
    blocks, rx, rh, rt, rpc, ry, rxr,           \* ResNet flow test bench
    configs, ret,                               \* load_model
    fA, fgaps, fmasks, fk, fmean, fcov, ftraj, flog,  \* filter recursion
    mlp_args, caller_hidden_dims, mlp           \* construction of a stribor MLP

flowVars == <<obj, x, kw, pc, y, ld, fl, xr, il>>
resVars == <<blocks, rx, rh, rt, rpc, ry, rxr>>
loadVars == <<configs, ret>>
filterVars == <<fA, fgaps, fmasks, fk, fmean, fcov, ftraj, flog>>
mlpVars == <<mlp_args, caller_hidden_dims, mlp>>
vars == <<flowVars, resVars, loadVars, filterVars, mlpVars>>

(* ------------------------------ bounds --------------------------------- *)
Dim == 2
MaxLen == 2
MaxLsd == 3
MaxT == 3

None == <<>>
Some(v) == <<v>>
Pick(s, k) == s[(k % Len(s)) + 1]

\* the tuple <<f[1], ..., f[n]>>, every entry computed once
RECURSIVE Tup(_, _)
Tup(f, n) == IF n = 0 THEN <<>> ELSE Append(Tup(f, n - 1), f[n])

(* --------------------------- exact rationals --------------------------- *)
Abs(n) == IF n < 0 THEN -n ELSE n

RECURSIVE GCD(_, _)
GCD(a, b) == IF b = 0 THEN a ELSE GCD(b, a % b)

RNorm(n, d) ==
    LET g == GCD(Abs(n), Abs(d))
        s == IF d < 0 THEN -1 ELSE 1
    IN  <<(s * n) \div g, (s * d) \div g>>

R(n) == <<n, 1>>
\* a + b over the common denominator a[2] * b[2] / g
RAddOver(a, b, g) ==
    RNorm(a[1] * (b[2] \div g) + b[1] * (a[2] \div g), (a[2] \div g) * b[2])
RAdd(a, b) == RAddOver(a, b, GCD(a[2], b[2]))
RNeg(a) == <<-a[1], a[2]>>
RSub(a, b) == RAdd(a, RNeg(b))
\* a * b with the common factors g1, g2 cancelled first
RMulOver(a, b, g1, g2) ==
    RNorm((a[1] \div g1) * (b[1] \div g2), (a[2] \div g2) * (b[2] \div g1))
RMul(a, b) == RMulOver(a, b, GCD(Abs(a[1]), b[2]), GCD(Abs(b[1]), a[2]))
RInv(a) == RNorm(a[2], a[1])
RDiv(a, b) == RMul(a, RInv(b))
RMax0(a) == IF a[1] < 0 THEN R(0) ELSE a

RECURSIVE RPowNat(_, _)
RPowNat(q, k) == IF k = 0 THEN R(1) ELSE RMul(q, RPowNat(q, k - 1))
RPow(q, k) == IF k >= 0 THEN RPowNat(q, k) ELSE RPowNat(RInv(q), -k)

(* ------------------------ reals of the two sorts ----------------------- *)
IntR(k) == <<"int", k>>
LogR(q) == <<"log", q>>
\* the real 0 is the integer 0 and is ln(1)
IsZero(r) == r = IntR(0) \/ r = LogR(R(1))

\* exp(r)
Exp(r) ==
    CASE r[1] = "log" -> r[2]
      [] r = IntR(0) -> R(1)

\* a * b, one of the two an integer
Mul(a, b) ==
    IF a[1] = "int" /\ b[1] = "int" THEN IntR(a[2] * b[2])
    ELSE IF a[1] = "int" THEN LogR(RPow(b[2], a[2]))
    ELSE LogR(RPow(a[2], b[2]))

\* a + b; the integer 0 is the start value of an accumulation
Add(a, b) ==
    CASE a[1] = "int" /\ b[1] = "int" -> IntR(a[2] + b[2])
      [] a[1] = "log" /\ b[1] = "log" -> LogR(RMul(a[2], b[2]))
      [] a = IntR(0) /\ b[1] = "log" -> b
      [] a[1] = "log" /\ b = IntR(0) -> a

Neg(a) == IF a[1] = "int" THEN IntR(-a[2]) ELSE LogR(RInv(a[2]))

\* torch.log1p(t.abs()) of an integer t
Log1pAbs(t) == LogR(R(1 + Abs(t[2])))

RECURSIVE SumReals(_, _)
SumReals(v, i) == IF i = 0 THEN IntR(0) ELSE Add(SumReals(v, i - 1), v[i])

(* ------------------------------ vectors -------------------------------- *)
VAdd(u, v) == Tup([i \in 1..Len(u) |-> RAdd(u[i], v[i])], Len(u))
VSub(u, v) == Tup([i \in 1..Len(u) |-> RSub(u[i], v[i])], Len(u))
VMul(u, v) == Tup([i \in 1..Len(u) |-> RMul(u[i], v[i])], Len(u))

\* sum_{i in lo..hi} f[i]
RECURSIVE RSum(_, _, _)
RSum(f, lo, hi) == IF hi < lo THEN R(0) ELSE RAdd(RSum(f, lo, hi - 1), f[hi])

\* x @ M for a row vector x
VecMat(v, M) ==
    Tup([j \in 1..Len(M[1]) |-> RSum([i \in 1..Len(v) |-> RMul(v[i], M[i][j])], 1, Len(v))],
        Len(M[1]))

\* F.linear(x, W) = x @ W^T
Linear(v, W) ==
    Tup([j \in 1..Len(W) |-> RSum([i \in 1..Len(v) |-> RMul(v[i], W[j][i])], 1, Len(v))],
        Len(W))

MatMul(A, B) == Tup([i \in 1..Len(A) |-> VecMat(A[i], B)], Len(A))

\* torch.linalg.solve_triangular(T, b, upper=False): T z = b, z a column
RECURSIVE SolveLowerLeft(_, _, _)
SolveLowerLeft(T, b, n) ==
    IF n = 0 THEN <<>>
    ELSE LET z == SolveLowerLeft(T, b, n - 1)
             s == RSum([j \in 1..(n - 1) |-> RMul(T[n][j], z[j])], 1, n - 1)
         IN  Append(z, RDiv(RSub(b[n], s), T[n][n]))

\* torch.linalg.solve_triangular(T, b, upper=True): T z = b; entries i..n of z
RECURSIVE SolveUpperLeftFrom(_, _, _)
SolveUpperLeftFrom(T, b, i) ==
    LET n == Len(b) IN
    IF i > n THEN <<>>
    ELSE LET z == SolveUpperLeftFrom(T, b, i + 1)
             s == RSum([j \in 1..(n - i) |-> RMul(T[i][i + j], z[j])], 1, n - i)
         IN  <<RDiv(RSub(b[i], s), T[i][i])>> \o z

Transpose(M) ==
    Tup([i \in 1..Len(M[1]) |-> Tup([j \in 1..Len(M) |-> M[j][i]], Len(M))], Len(M[1]))

\* solve_triangular(T, b, left=False): z T = b  iff  T^T z^T = b^T
SolveUpperRight(T, b) == SolveLowerLeft(Transpose(T), b, Len(b))
SolveLowerRight(T, b) == SolveUpperLeftFrom(Transpose(T), b, 1)

Eye(n) == Tup([i \in 1..n |-> Tup([j \in 1..n |-> IF i = j THEN R(1) ELSE R(0)], n)], n)
\* torch.tril(W, d): entries with j - i <= d ; torch.triu(W, d): j - i >= d
Tril(W, d) ==
    Tup([i \in 1..Len(W) |->
            Tup([j \in 1..Len(W) |-> IF j - i <= d THEN W[i][j] ELSE R(0)], Len(W))], Len(W))
Triu(W, d) ==
    Tup([i \in 1..Len(W) |->
            Tup([j \in 1..Len(W) |-> IF j - i >= d THEN W[i][j] ELSE R(0)], Len(W))], Len(W))
MatAdd(A, B) == Tup([i \in 1..Len(A) |-> VAdd(A[i], B[i])], Len(A))

(* ============================ stribor flows ============================ *)
\* kwargs of a call: latent and t, each given or absent
TimeArg(k) == IF k.t = None THEN IntR(1) ELSE IntR(k.t[1])   \* t=1.0 by default

\* latent_net(latent): a linear net whose first half of outputs are logarithms
LatentNet(net, latent) ==
    Tup([i \in 1..Len(net.W) |->
            LET s == RSum([j \in 1..Len(latent) |-> R(net.W[i][j] * latent[j])],
                          1, Len(latent))[1]
            IN  IF 2 * i <= Len(net.W) THEN LogR(RPow(R(2), s)) ELSE R(s)], Len(net.W))

\* tensor.chunk(2, dim=-1)
Chunk2(v) ==
    LET h == Len(v) \div 2 IN <<SubSeq(v, 1, h), SubSeq(v, h + 1, Len(v))>>

(* ------------------------------- Affine -------------------------------- *)
Affine_get_params(f, latent) ==
    IF f.latent_net = None THEN <<f.log_scale, f.shift>>
    ELSE Chunk2(LatentNet(f.latent_net[1], latent[1]))

Affine_forward_and_log_det_jacobian(f, xx, latent, reverse) ==
    LET p == Affine_get_params(f, latent)
        log_scale == p[1]
        shift == p[2]
        yy == IF reverse
              THEN Tup([i \in 1..Len(xx) |->
                           RMul(RSub(xx[i], shift[i]), Exp(Neg(log_scale[i])))], Len(xx))
              ELSE Tup([i \in 1..Len(xx) |->
                           RAdd(RMul(xx[i], Exp(log_scale[i])), shift[i])], Len(xx))
    IN  <<yy, SumReals(log_scale, Len(xx))>>

Affine_forward(f, xx, k) == Affine_forward_and_log_det_jacobian(f, xx, k.latent, FALSE)[1]

\* faulty variant: the log-determinant of the reverse pass is returned as it is
Affine_inverse_and_log_det_jacobian_SameSign(f, yy, latent) ==
    Affine_forward_and_log_det_jacobian(f, yy, latent, TRUE)

Affine_inverse_and_log_det_jacobian(f, yy, latent) ==
    LET r == Affine_forward_and_log_det_jacobian(f, yy, latent, TRUE)
    IN  <<r[1], Neg(r[2])>>

Affine_inverse(f, yy, k) == Affine_inverse_and_log_det_jacobian(f, yy, k.latent)[1]

Affine_log_det_jacobian(f, xx, yy, k) ==
    Affine_forward_and_log_det_jacobian(f, xx, k.latent, FALSE)[2]

(* ------------------------------ AffineLU ------------------------------- *)
AffineLU_L(f) == MatAdd(Tril(f.weight, -1), Eye(Len(f.weight)))

AffineLU_U(f) ==
    MatAdd(Triu(f.weight, 1),
           Tup([i \in 1..Len(f.weight) |->
                   Tup([j \in 1..Len(f.weight) |->
                           IF i = j THEN Exp(f.log_diag[j]) ELSE R(0)], Len(f.weight))],
               Len(f.weight)))

AffineLU_forward(f, xx, k) == VAdd(VecMat(xx, MatMul(AffineLU_L(f), AffineLU_U(f))), f.bias)

AffineLU_inverse(f, yy, k) ==
    LET x1 == VSub(yy, f.bias)
        x2 == SolveUpperRight(AffineLU_U(f), x1)
    IN  SolveLowerRight(AffineLU_L(f), x2)

AffineLU_log_det_jacobian(f, xx, yy, k) == SumReals(f.log_diag, Len(xx))

(* -------------------------- MatrixExponential -------------------------- *)
MatrixExponential_lu(f) ==
    <<MatAdd(Tril(f.weight, -1), Eye(f.dim)), MatAdd(Triu(f.weight, 0), Eye(f.dim))>>

\* isinstance(t, Number): t = ones * t ; log_time: t = log1p(|t|)
MatrixExponential_get_time(f, t) == IF f.log_time THEN Log1pAbs(t) ELSE t

\* faulty variant: the scaling forgets the time, x * diag.exp()
MatrixExponential_forward_rev_NoTime(f, xx, t0, reverse) ==
    LET x0 == IF reverse /\ f.bias # None THEN VSub(xx, f.bias[1]) ELSE xx
        LU == MatrixExponential_lu(f)
        x1 == SolveLowerLeft(LU[1], x0, Len(x0))
        x2 == SolveUpperLeftFrom(LU[2], x1, 1)
        x3 == Tup([i \in 1..Len(x2) |->
                      RMul(x2[i], Exp(Mul(f.diag[i],
                                          IF f.log_time THEN LogR(R(2)) ELSE IntR(1))))],
                  Len(x2))
        x4 == Linear(x3, LU[2])
        x5 == Linear(x4, LU[1])
    IN  IF ~reverse /\ f.bias # None THEN VAdd(x5, f.bias[1]) ELSE x5

MatrixExponential_forward_rev(f, xx, t0, reverse) ==
    LET t1 == MatrixExponential_get_time(f, t0)
        t == IF reverse THEN Neg(t1) ELSE t1
        x0 == IF reverse /\ f.bias # None THEN VSub(xx, f.bias[1]) ELSE xx
        LU == MatrixExponential_lu(f)
        x1 == SolveLowerLeft(LU[1], x0, Len(x0))
        x2 == SolveUpperLeftFrom(LU[2], x1, 1)
        x3 == Tup([i \in 1..Len(x2) |-> RMul(x2[i], Exp(Mul(f.diag[i], t)))], Len(x2))
        x4 == Linear(x3, LU[2])
        x5 == Linear(x4, LU[1])
    IN  IF ~reverse /\ f.bias # None THEN VAdd(x5, f.bias[1]) ELSE x5

MatrixExponential_forward(f, xx, k) == MatrixExponential_forward_rev(f, xx, TimeArg(k), FALSE)

\* faulty variant: the inverse is the forward pass at the negated time, so the
\* bias is added instead of subtracted and log_time sees -t
MatrixExponential_inverse_NegatedForward(f, yy, k) ==
    MatrixExponential_forward_rev(f, yy, Neg(TimeArg(k)), FALSE)

MatrixExponential_inverse(f, yy, k) == MatrixExponential_forward_rev(f, yy, TimeArg(k), TRUE)

MatrixExponential_log_det_jacobian(f, xx, yy, k) ==
    Mul(SumReals(f.diag, f.dim), MatrixExponential_get_time(f, TimeArg(k)))

(* --------------------- Transform (abstract base) ----------------------- *)
\* f(x, **kwargs), f.inverse(y, **kwargs), f.log_det_jacobian(x, y, **kwargs)
Call_forward(f, xx, k) ==
    CASE f.kind = "Affine" -> Affine_forward(f, xx, k)
      [] f.kind = "AffineLU" -> AffineLU_forward(f, xx, k)
      [] f.kind = "MatrixExponential" -> MatrixExponential_forward(f, xx, k)

Call_inverse(f, yy, k) ==
    CASE f.kind = "Affine" -> Affine_inverse(f, yy, k)
      [] f.kind = "AffineLU" -> AffineLU_inverse(f, yy, k)
      [] f.kind = "MatrixExponential" -> MatrixExponential_inverse(f, yy, k)

Call_log_det_jacobian(f, xx, yy, k) ==
    CASE f.kind = "Affine" -> Affine_log_det_jacobian(f, xx, yy, k)
      [] f.kind = "AffineLU" -> AffineLU_log_det_jacobian(f, xx, yy, k)
      [] f.kind = "MatrixExponential" -> MatrixExponential_log_det_jacobian(f, xx, yy, k)

Transform_forward_and_log_det_jacobian(f, xx, k) ==
    LET yy == Call_forward(f, xx, k)
    IN  <<yy, Call_log_det_jacobian(f, xx, yy, k)>>

\* faulty variant: the log-determinant of the inverse is not negated
Transform_inverse_and_log_det_jacobian_NoNeg(f, yy, k) ==
    LET xx == Call_inverse(f, yy, k)
    IN  <<xx, Call_log_det_jacobian(f, xx, yy, k)>>

Transform_inverse_and_log_det_jacobian(f, yy, k) ==
    LET xx == Call_inverse(f, yy, k)
    IN  <<xx, Neg(Call_log_det_jacobian(f, xx, yy, k))>>

Call_forward_and_log_det_jacobian(f, xx, k) ==
    IF f.kind = "Affine" THEN Affine_forward_and_log_det_jacobian(f, xx, k.latent, FALSE)
    ELSE Transform_forward_and_log_det_jacobian(f, xx, k)

Call_inverse_and_log_det_jacobian(f, yy, k) ==
    IF f.kind = "Affine" THEN Affine_inverse_and_log_det_jacobian(f, yy, k.latent)
    ELSE Transform_inverse_and_log_det_jacobian(f, yy, k)

(* --------------------------- NormalizingFlow --------------------------- *)
RECURSIVE Reversed(_)
Reversed(s) == IF s = <<>> THEN <<>> ELSE Append(Reversed(Tail(s)), Head(s))

\* for f in ts: x = f(x, **kwargs)
RECURSIVE ForwardLoop(_, _, _)
ForwardLoop(ts, xx, k) ==
    IF ts = <<>> THEN xx ELSE ForwardLoop(Tail(ts), Call_forward(Head(ts), xx, k), k)

\* for f in ts: y = f.inverse(y, **kwargs)
RECURSIVE InverseLoop(_, _, _)
InverseLoop(ts, yy, k) ==
    IF ts = <<>> THEN yy ELSE InverseLoop(Tail(ts), Call_inverse(Head(ts), yy, k), k)

\* for f in ts: x, ldj = f.forward_and_log_det_jacobian(x); log_det_jac += ldj
RECURSIVE ForwardLdjLoop(_, _, _, _)
ForwardLdjLoop(ts, xx, acc, k) ==
    IF ts = <<>> THEN <<xx, acc>>
    ELSE LET r == Call_forward_and_log_det_jacobian(Head(ts), xx, k)
         IN  ForwardLdjLoop(Tail(ts), r[1], Add(acc, r[2]), k)

RECURSIVE InverseLdjLoop(_, _, _, _)
InverseLdjLoop(ts, yy, acc, k) ==
    IF ts = <<>> THEN <<yy, acc>>
    ELSE LET r == Call_inverse_and_log_det_jacobian(Head(ts), yy, k)
         IN  InverseLdjLoop(Tail(ts), r[1], Add(acc, r[2]), k)

\* faulty variant: forward walks the list backwards
NormalizingFlow_forward_Reversed(f, xx, k) == ForwardLoop(Reversed(f.transforms), xx, k)

NormalizingFlow_forward(f, xx, k) == ForwardLoop(f.transforms, xx, k)

\* faulty variant: inverse walks the list in forward order
NormalizingFlow_inverse_ListOrder(f, yy, k) == InverseLoop(f.transforms, yy, k)

NormalizingFlow_inverse(f, yy, k) == InverseLoop(Reversed(f.transforms), yy, k)

NormalizingFlow_forward_and_log_det_jacobian(f, xx, k) ==
    ForwardLdjLoop(f.transforms, xx, IntR(0), k)

NormalizingFlow_inverse_and_log_det_jacobian(f, yy, k) ==
    InverseLdjLoop(Reversed(f.transforms), yy, IntR(0), k)

NormalizingFlow_log_det_jacobian(f, xx, yy, k) ==
    NormalizingFlow_forward_and_log_det_jacobian(f, xx, k)[2]

(* ----------------- calls on the object under test ---------------------- *)
IsFlow(f) == f.kind = "NormalizingFlow"

Obj_forward(f, xx, k) ==
    IF IsFlow(f) THEN NormalizingFlow_forward(f, xx, k) ELSE Call_forward(f, xx, k)

Obj_inverse(f, yy, k) ==
    IF IsFlow(f) THEN NormalizingFlow_inverse(f, yy, k) ELSE Call_inverse(f, yy, k)

Obj_log_det_jacobian(f, xx, yy, k) ==
    IF IsFlow(f) THEN NormalizingFlow_log_det_jacobian(f, xx, yy, k)
    ELSE Call_log_det_jacobian(f, xx, yy, k)

Obj_forward_and_log_det_jacobian(f, xx, k) ==
    IF IsFlow(f) THEN NormalizingFlow_forward_and_log_det_jacobian(f, xx, k)
    ELSE Call_forward_and_log_det_jacobian(f, xx, k)

Obj_inverse_and_log_det_jacobian(f, yy, k) ==
    IF IsFlow(f) THEN NormalizingFlow_inverse_and_log_det_jacobian(f, yy, k)
    ELSE Call_inverse_and_log_det_jacobian(f, yy, k)

(* ------------------- the transforms and inputs drawn ------------------- *)
Idx == 1..Dim
ScaleVals == <<R(2), RNorm(1, 2), R(3)>>
ShiftVals == <<R(1), R(-2), R(0)>>
IntVals == <<1, -1, 2>>
WeightVals == <<R(1), R(2), R(0)>>

AffineFixed(seed) ==
    [kind |-> "Affine", latent_net |-> None,
     log_scale |-> [i \in Idx |-> LogR(Pick(ScaleVals, seed + i))],
     shift |-> [i \in Idx |-> Pick(ShiftVals, seed + 2 * i)]]

AffineLatent(seed) ==
    [kind |-> "Affine",
     latent_net |-> Some([W |-> [i \in 1..(2 * Dim) |-> <<Pick(IntVals, seed + i)>>]]),
     log_scale |-> None, shift |-> None]

AffineLU(seed) ==
    [kind |-> "AffineLU",
     weight |-> [i \in Idx |-> [j \in Idx |-> Pick(ShiftVals, seed + i + 2 * j)]],
     log_diag |-> [i \in Idx |-> LogR(Pick(ScaleVals, seed + i))],
     bias |-> [i \in Idx |-> Pick(ShiftVals, seed + i)]]

\* diag is drawn as logarithms without log_time and as integers with it
MatrixExponential(seed, bias, log_time) ==
    [kind |-> "MatrixExponential", dim |-> Dim, log_time |-> log_time,
     weight |-> [i \in Idx |-> [j \in Idx |-> Pick(WeightVals, seed + 2 * i + j)]],
     diag |-> [i \in Idx |-> IF log_time THEN IntR(Pick(IntVals, seed + i))
                                         ELSE LogR(Pick(ScaleVals, seed + i))],
     bias |-> IF bias THEN Some([i \in Idx |-> Pick(ShiftVals, seed + i)]) ELSE None]

Leaves ==
    {AffineFixed(0), AffineLatent(0), AffineLU(0)}
        \cup {MatrixExponential(0, b, l) : b \in BOOLEAN, l \in BOOLEAN}

RECURSIVE SeqsUpTo(_, _)
SeqsUpTo(S, n) ==
    IF n = 0 THEN {<<>>}
    ELSE LET P == SeqsUpTo(S, n - 1)
         IN  P \cup {Append(s, e) : s \in {p \in P : Len(p) = n - 1}, e \in S}

NormalizingFlow(transforms) == [kind |-> "NormalizingFlow", transforms |-> transforms]

Objects == Leaves \cup {NormalizingFlow(ts) : ts \in SeqsUpTo(Leaves, MaxLen)}

XInputs == {[i \in Idx |-> R(Pick(IntVals, s + i))] : s \in 0..2}

NeedsLatent(f) ==
    IF IsFlow(f)
    THEN \E i \in 1..Len(f.transforms) :
            f.transforms[i].kind = "Affine" /\ f.transforms[i].latent_net # None
    ELSE f.kind = "Affine" /\ f.latent_net # None

Kwargs(f) ==
    {[latent |-> l, t |-> t] :
        l \in (IF NeedsLatent(f) THEN {} ELSE {None}) \cup {Some(<<2>>)},
        t \in {None, Some(0), Some(-1), Some(2)}}

(* ------------------------- the flow test bench ------------------------- *)
IdleRes ==
    /\ blocks = <<>> /\ rx = <<>> /\ rh = None /\ rt = 0
    /\ rpc = "idle" /\ ry = <<>> /\ rxr = <<>>
IdleLoad == configs = <<>> /\ ret = [status |-> "idle"]
IdleFilter ==
    /\ fA = <<>> /\ fgaps = <<>> /\ fmasks = <<>> /\ fk = 0
    /\ fmean = <<>> /\ fcov = <<>> /\ ftraj = <<>> /\ flog = <<>>
IdleMLP == mlp_args = <<>> /\ caller_hidden_dims = <<>> /\ mlp = None
IdleFlow ==
    /\ obj = <<>> /\ x = <<>> /\ kw = <<>> /\ pc = "idle"
    /\ y = None /\ ld = None /\ fl = None /\ xr = None /\ il = None

Init ==
    /\ obj \in Objects
    /\ x \in XInputs
    /\ kw \in Kwargs(obj)
    /\ pc = "start"
    /\ y = None /\ ld = None /\ fl = None /\ xr = None /\ il = None
    /\ IdleRes /\ IdleLoad /\ IdleFilter /\ IdleMLP

\* y = f(x, **kwargs)
Forward ==
    /\ pc = "start"
    /\ y' = Obj_forward(obj, x, kw)
    /\ pc' = "forward"
    /\ UNCHANGED <<obj, x, kw, ld, fl, xr, il, resVars, loadVars, filterVars, mlpVars>>

\* f.log_det_jacobian(x, y, **kwargs)
LogDetJacobian ==
    /\ pc = "forward"
    /\ ld' = Obj_log_det_jacobian(obj, x, y, kw)
    /\ pc' = "log_det"
    /\ UNCHANGED <<obj, x, kw, y, fl, xr, il, resVars, loadVars, filterVars, mlpVars>>

\* f.forward_and_log_det_jacobian(x, **kwargs)
ForwardAndLogDetJacobian ==
    /\ pc = "log_det"
    /\ fl' = Obj_forward_and_log_det_jacobian(obj, x, kw)
    /\ pc' = "forward_ldj"
    /\ UNCHANGED <<obj, x, kw, y, ld, xr, il, resVars, loadVars, filterVars, mlpVars>>

\* f.inverse(y, **kwargs)
Inverse ==
    /\ pc = "forward_ldj"
    /\ xr' = Obj_inverse(obj, y, kw)
    /\ pc' = "inverse"
    /\ UNCHANGED <<obj, x, kw, y, ld, fl, il, resVars, loadVars, filterVars, mlpVars>>

\* f.inverse_and_log_det_jacobian(y, **kwargs)
InverseAndLogDetJacobian ==
    /\ pc = "inverse"
    /\ il' = Obj_inverse_and_log_det_jacobian(obj, y, kw)
    /\ pc' = "done"
    /\ UNCHANGED <<obj, x, kw, y, ld, fl, xr, resVars, loadVars, filterVars, mlpVars>>

Next ==
    \/ Forward
    \/ LogDetJacobian
    \/ ForwardAndLogDetJacobian
    \/ Inverse
    \/ InverseAndLogDetJacobian

Spec == Init /\ [][Next]_vars

(* ------------------------- properties of flows ------------------------- *)
RealEq(a, b) == a = b \/ (IsZero(a) /\ IsZero(b))

Inverted == pc \in {"inverse", "done"}

\* C1: a NormalizingFlow of round-tripping transforms round-trips: forward
\* applies the transforms in list order, inverse applies their inverses in
\* reverse order, and inverse(forward(x)) = x under the same kwargs.
C1_FlowRoundTrip ==
    (IsFlow(obj) /\ Inverted) =>
        /\ xr = x
        /\ Len(obj.transforms) = 0 => y = x
        /\ Len(obj.transforms) = 2 =>
              /\ y = Call_forward(obj.transforms[2],
                                  Call_forward(obj.transforms[1], x, kw), kw)
              /\ xr = Call_inverse(obj.transforms[1],
                                   Call_inverse(obj.transforms[2], y, kw), kw)

C1_Witness ==
    /\ IsFlow(obj) /\ pc = "inverse"
    /\ Len(obj.transforms) = 2
    /\ obj.transforms[1].kind = "Affine" /\ obj.transforms[2].kind = "MatrixExponential"
    /\ y # x /\ xr = x

\* sum of the components' log-determinants, each at the value reached in list order
RECURSIVE ComponentLdjSum(_, _, _)
ComponentLdjSum(ts, xx, k) ==
    IF ts = <<>> THEN IntR(0)
    ELSE LET yy == Call_forward(Head(ts), xx, k)
         IN  Add(Call_log_det_jacobian(Head(ts), xx, yy, k), ComponentLdjSum(Tail(ts), yy, k))

\* C2: forward_and_log_det_jacobian(x) of a flow returns the sum of the
\* component log-determinants along the list, inverse_and_log_det_jacobian
\* of y = forward(x) returns its negation, so the two add to zero (also for
\* the empty list).
C2_LogDetAdditive ==
    (IsFlow(obj) /\ pc = "done") =>
        /\ RealEq(fl[2], ComponentLdjSum(obj.transforms, x, kw))
        /\ RealEq(il[2], Neg(fl[2]))
        /\ IsZero(Add(fl[2], il[2]))

C2_Witness ==
    /\ IsFlow(obj) /\ pc = "done"
    /\ Len(obj.transforms) = 2
    /\ obj.transforms[1].kind = "MatrixExponential" /\ obj.transforms[2].kind = "AffineLU"
    /\ ~IsZero(fl[2]) /\ il[2] = Neg(fl[2])

IsME(f) == f.kind = "MatrixExponential"

\* C4 as stated: MatrixExponential.forward(x, t=0) = x for every construction.
C4_Original ==
    (IsME(obj) /\ kw.t = Some(0) /\ pc # "start") => y = x

\* C4 amended: at t=0 forward returns x when bias=False and x + bias when
\* bias=True, with log_time either way.
C4_IdentityAtZeroWithoutBias ==
    (IsME(obj) /\ kw.t = Some(0) /\ pc # "start") =>
        y = (IF obj.bias = None THEN x ELSE VAdd(x, obj.bias[1]))

C4_Witness ==
    /\ IsME(obj) /\ kw.t = Some(0) /\ pc = "forward"
    /\ obj.log_time /\ obj.bias = None
    /\ y = x

\* C8: for every transform, forward_and_log_det_jacobian(x) returns
\* forward(x) and the log-determinant that a separate call
\* log_det_jacobian(x, forward(x)) returns.
C8_ForwardAndLdjConsistent ==
    (pc \in {"forward_ldj", "inverse", "done"}) =>
        /\ fl[1] = y
        /\ RealEq(fl[2], ld)

C8_Witness ==
    /\ pc = "forward_ldj"
    /\ IsFlow(obj) /\ Len(obj.transforms) = 2
    /\ obj.transforms[1].kind = "Affine" /\ obj.transforms[1].latent_net # None
    /\ obj.transforms[2].kind = "MatrixExponential"
    /\ ~IsZero(ld) /\ fl = <<y, ld>>

\* C11: MatrixExponential.inverse(MatrixExponential.forward(x, t), t) = x for
\* every x, every time t of either sign (and the default), with and without
\* bias and with and without log_time; with a bias the forward value is the
\* bias-free map of x plus the bias, which the reverse pass subtracts first.
C11_MatrixExponentialRoundTrip ==
    (IsME(obj) /\ Inverted) =>
        /\ xr = x
        /\ obj.bias # None =>
              /\ VSub(y, obj.bias[1]) =
                    MatrixExponential_forward_rev([obj EXCEPT !.bias = None], x,
                                                  TimeArg(kw), FALSE)
              /\ x = MatrixExponential_forward_rev([obj EXCEPT !.bias = None],
                                                   VSub(y, obj.bias[1]), TimeArg(kw), TRUE)

C11_Witness ==
    /\ IsME(obj) /\ pc = "inverse"
    /\ obj.bias # None /\ obj.log_time /\ kw.t = Some(-1)
    /\ y # x /\ y # VAdd(x, obj.bias[1]) /\ xr = x

IsAffine(f) == f.kind = "Affine"

\* C12: for Affine with fixed parameters or with parameters from latent_net
\* at the same latent, inverse(forward(x)) = x and
\* inverse_and_log_det_jacobian(forward(x)) = (x, -L), where L is the
\* log-determinant of forward_and_log_det_jacobian(x): the sum of log_scale
\* over the last dimension, the same for every x and every shift.
C12_AffineRoundTrip ==
    (IsAffine(obj) /\ pc = "done") =>
        /\ xr = x
        /\ il = <<x, Neg(fl[2])>>
        /\ fl[2] = SumReals(Affine_get_params(obj, kw.latent)[1], Dim)
        /\ \A x2 \in XInputs :
              Affine_forward_and_log_det_jacobian(obj, x2, kw.latent, FALSE)[2] = fl[2]
        /\ obj.latent_net = None =>
              \A s \in 0..2 :
                 Affine_forward_and_log_det_jacobian(
                     [obj EXCEPT !.shift = AffineFixed(s).shift], x, kw.latent, FALSE)[2]
                   = fl[2]

C12_Witness ==
    /\ IsAffine(obj) /\ pc = "done"
    /\ obj.latent_net # None /\ kw.latent # None
    /\ y # x /\ xr = x
    /\ ~IsZero(fl[2]) /\ il = <<x, Neg(fl[2])>>

(* ============================= NeuralFlow ============================== *)
\* **kwargs with t=t added
KwargsAt(k, t) == [latent |-> k.latent, t |-> Some(t)]

\* faulty variant: the inverses at t0 are applied in list order
NeuralFlow_forward_ListOrder(f, xx, t, t0, k) ==
    LET x0 == IF t0 # None THEN InverseLoop(f.transforms, xx, KwargsAt(k, t0[1])) ELSE xx
    IN  ForwardLoop(f.transforms, x0, KwargsAt(k, t))

NeuralFlow_forward(f, xx, t, t0, k) ==
    LET x0 == IF t0 # None
              THEN InverseLoop(Reversed(f.transforms), xx, KwargsAt(k, t0[1]))
              ELSE xx
    IN  ForwardLoop(f.transforms, x0, KwargsAt(k, t))

NeuralFlow(transforms) == [kind |-> "NeuralFlow", transforms |-> transforms]

IsNeuralFlow(f) == f.kind = "NeuralFlow"

TimeVals == {0, -1, 1}

InitNeural ==
    /\ obj \in {NeuralFlow(ts) : ts \in SeqsUpTo(Leaves, MaxLen)}
    /\ x \in XInputs
    /\ kw \in {[latent |-> l, t |-> t, t0 |-> t0] :
                 l \in (IF NeedsLatent(NormalizingFlow(obj.transforms)) THEN {} ELSE {None})
                          \cup {Some(<<2>>)},
                 t \in TimeVals, t0 \in {None} \cup {Some(s) : s \in TimeVals}}
    /\ pc = "start"
    /\ y = None /\ ld = None /\ fl = None /\ xr = None /\ il = None
    /\ IdleRes /\ IdleLoad /\ IdleFilter /\ IdleMLP

\* y = flow(x, t, t0, **kwargs)
NeuralForward ==
    /\ pc = "start"
    /\ y' = NeuralFlow_forward(obj, x, kw.t, kw.t0, kw)
    /\ pc' = "forward"
    /\ UNCHANGED <<obj, x, kw, ld, fl, xr, il, resVars, loadVars, filterVars, mlpVars>>

NextNeural == NeuralForward

SpecNeural == InitNeural /\ [][NextNeural]_vars

\* C14: NeuralFlow.forward(x, t, t0) with t0 given applies the inverses at t0
\* from the last transform to the first and then the forwards at t from the
\* first to the last; with t0 omitted it applies the forwards only; and
\* forward(x, t=t0, t0=t0) = x.
C14_NeuralFlowInitialCondition ==
    (IsNeuralFlow(obj) /\ pc = "forward") =>
        LET ts == obj.transforms
            kt == KwargsAt(kw, kw.t)
        IN  /\ kw.t0 = None =>
                  /\ Len(ts) = 0 => y = x
                  /\ Len(ts) = 1 => y = Call_forward(ts[1], x, kt)
                  /\ Len(ts) = 2 =>
                        y = Call_forward(ts[2], Call_forward(ts[1], x, kt), kt)
            /\ kw.t0 # None =>
                  LET k0 == KwargsAt(kw, kw.t0[1])
                  IN  /\ Len(ts) = 1 =>
                            y = Call_forward(ts[1], Call_inverse(ts[1], x, k0), kt)
                      /\ Len(ts) = 2 =>
                            y = Call_forward(ts[2],
                                  Call_forward(ts[1],
                                    Call_inverse(ts[1], Call_inverse(ts[2], x, k0), k0),
                                    kt), kt)
            /\ kw.t0 = Some(kw.t) => y = x

C14_Witness ==
    /\ IsNeuralFlow(obj) /\ pc = "forward"
    /\ Len(obj.transforms) = 2
    /\ obj.transforms[1].kind = "MatrixExponential" /\ obj.transforms[2].kind = "AffineLU"
    /\ kw.t = 1 /\ kw.t0 = Some(1)
    /\ InverseLoop(Reversed(obj.transforms), x, KwargsAt(kw, 1)) # x
    /\ y = x

(* ============================ ResNet flow ============================== *)
\* the outcome of a call: a value, or the exception that it raised
Ok(v) == [ok |-> TRUE, val |-> v, err |-> "none"]
Raise(e) == [ok |-> FALSE, val |-> <<>>, err |-> e]

\* layers.GNeuralFlow.models.mlp.MLP(in_dim, hidden_dims, out_dim, 'ReLU'): linear
\* layers in_dim -> hidden_dims[1] -> ... -> out_dim, biases at zero
GMLP(in_dim, hidden_dims, out_dim, seed) ==
    LET dims == <<in_dim>> \o hidden_dims \o <<out_dim>>
    IN  [in_dim |-> in_dim,
         layers |-> Tup([l \in 1..(Len(dims) - 1) |->
                           Tup([i \in 1..dims[l + 1] |->
                                  Tup([j \in 1..dims[l] |->
                                         RNorm(Pick(<<0, 1, -1>>, seed + l + i + 2 * j), 2)],
                                      dims[l])],
                               dims[l + 1])],
                        Len(dims) - 1)]

ReLU(v) == Tup([i \in 1..Len(v) |-> RMax0(v[i])], Len(v))

RECURSIVE GMLP_layers(_, _)
GMLP_layers(ls, v) ==
    IF ls = <<>> THEN v ELSE GMLP_layers(Tail(ls), Linear(ReLU(v), Head(ls)))

\* nn.Linear raises when the last dimension of its input is not in_features
GMLP_forward(net, inp) ==
    IF Len(inp) # net.in_dim THEN Raise("RuntimeError")
    ELSE Ok(GMLP_layers(Tail(net.layers), Linear(inp, Head(net.layers))))

\* the time embedding named by time_net: scale * t, zero at t = 0
TimeNet(tn, t) == Tup([i \in 1..Len(tn.scale) |-> RMul(tn.scale[i], R(t))], Len(tn.scale))

ResNetFlowBlock(dim, hidden_dims, invertible, seed) ==
    [invertible |-> invertible,
     net |-> GMLP(dim * 2 + 1, hidden_dims, dim, seed),
     net2 |-> GMLP(dim + 1, <<2, 2, 3, 2>>, dim, seed + 1),
     time_net |-> [scale |-> Tup([i \in 1..dim |-> Pick(ShiftVals, seed + i)], dim)]]

\* torch.cat([...], -1)
Cat2(a, b) == a \o b
Cat3(a, b, c) == a \o b \o c

ResNetFlowBlock_forward(b, xx, h, t) ==
    LET t_output == TimeNet(b.time_net, t)
        n2 == GMLP_forward(b.net2, Cat2(xx, <<R(t)>>))
    IN  IF h # None
        THEN LET n1 == GMLP_forward(b.net, Cat3(xx, h[1], <<R(t)>>))
             IN  IF ~n1.ok THEN n1
                 ELSE IF ~n2.ok THEN n2
                 ELSE Ok(VAdd(xx, VMul(t_output, VMul(n1.val, n2.val))))
        ELSE IF ~n2.ok THEN n2
             ELSE Ok(VAdd(xx, VMul(t_output, n2.val)))

\* for _ in range(iterations): residual = time_net(t) * net([x, t]); x = y - residual
RECURSIVE FixedPoint(_, _, _, _, _)
FixedPoint(b, yy, t, xx, iterations) ==
    IF iterations = 0 THEN Ok(xx)
    ELSE LET n == GMLP_forward(b.net, Cat2(xx, <<R(t)>>))
         IN  IF ~n.ok THEN n
             ELSE FixedPoint(b, yy, t, VSub(yy, VMul(TimeNet(b.time_net, t), n.val)),
                             iterations - 1)

ResNetFlowBlock_inverse(b, yy, t, iterations) ==
    IF ~b.invertible THEN Raise("NotImplementedError")
    ELSE FixedPoint(b, yy, t, yy, iterations)

Iterations == 100

RECURSIVE ResNetFlowNF_forward(_, _, _, _)
ResNetFlowNF_forward(bs, xx, h, t) ==
    IF bs = <<>> THEN Ok(xx)
    ELSE LET r == ResNetFlowBlock_forward(Head(bs), xx, h, t)
         IN  IF ~r.ok THEN r ELSE ResNetFlowNF_forward(Tail(bs), r.val, h, t)

RECURSIVE InverseBlocks(_, _, _)
InverseBlocks(bs, yy, t) ==
    IF bs = <<>> THEN Ok(yy)
    ELSE LET r == ResNetFlowBlock_inverse(Head(bs), yy, t, Iterations)
         IN  IF ~r.ok THEN r ELSE InverseBlocks(Tail(bs), r.val, t)

ResNetFlowNF_inverse(bs, yy, t) == InverseBlocks(Reversed(bs), yy, t)

\* ResNetFlowNF(dim, hidden_dims, num_layers, invertible=...)
ResNetFlowNF(dim, hidden_dims, num_layers, invertible, seed) ==
    Tup([l \in 1..num_layers |-> ResNetFlowBlock(dim, hidden_dims, invertible, seed + l)],
        num_layers)

InitRes ==
    /\ \E n \in 0..MaxLen, inv \in BOOLEAN, seed \in 0..2 :
          blocks = ResNetFlowNF(Dim, <<2>>, n, inv, seed)
    /\ rx \in XInputs
    /\ rh \in {None} \cup {Some(v) : v \in XInputs}
    /\ rt \in 0..2
    /\ rpc = "start"
    /\ ry = Ok(<<>>) /\ rxr = Ok(<<>>)
    /\ IdleFlow /\ IdleLoad /\ IdleFilter /\ IdleMLP

\* y = model(x, h, t)
ResForward ==
    /\ rpc = "start"
    /\ ry' = ResNetFlowNF_forward(blocks, rx, rh, rt)
    /\ rpc' = "forward"
    /\ UNCHANGED <<blocks, rx, rh, rt, rxr, flowVars, loadVars, filterVars, mlpVars>>

\* model.inverse(y, t)
ResInverse ==
    /\ rpc = "forward"
    /\ ry.ok
    /\ rxr' = ResNetFlowNF_inverse(blocks, ry.val, rt)
    /\ rpc' = "inverse"
    /\ UNCHANGED <<blocks, rx, rh, rt, ry, flowVars, loadVars, filterVars, mlpVars>>

NextRes == ResForward \/ ResInverse

SpecResNet == InitRes /\ [][NextRes]_vars

AllInvertible == \A i \in 1..Len(blocks) : blocks[i].invertible

\* C3: ResNetFlowNF.inverse(ResNetFlowNF.forward(x, h, t), t) recovers x for
\* invertible blocks, with or without a conditioning input h.
C3_ResNetRoundTrip ==
    (rpc = "inverse" /\ AllInvertible) => (rxr.ok /\ rxr.val = rx)

\* the number of passes through the body of the loop of ResNetFlowBlock.inverse
\* that ran to their end
RECURSIVE FixedPointSteps(_, _, _, _, _)
FixedPointSteps(b, yy, t, xx, iterations) ==
    IF iterations = 0 THEN 0
    ELSE LET n == GMLP_forward(b.net, Cat2(xx, <<R(t)>>))
         IN  IF ~n.ok THEN 0
             ELSE 1 + FixedPointSteps(b, yy, t, VSub(yy, VMul(TimeNet(b.time_net, t), n.val)),
                                      iterations - 1)

\* the blocks that ResNetFlowNF.inverse visits, each with the number of
\* fixed-point steps it completed
RECURSIVE InverseBlocksSteps(_, _, _)
InverseBlocksSteps(bs, yy, t) ==
    IF bs = <<>> THEN <<>>
    ELSE LET r == ResNetFlowBlock_inverse(Head(bs), yy, t, Iterations)
             n == IF Head(bs).invertible
                  THEN FixedPointSteps(Head(bs), yy, t, yy, Iterations) ELSE 0
         IN  <<[block |-> Head(bs), steps |-> n]>>
                 \o (IF r.ok THEN InverseBlocksSteps(Tail(bs), r.val, t) ELSE <<>>)

\* C13: ResNetFlowNF.inverse visits the blocks last to first and each
\* ResNetFlowBlock.inverse returns the iterate reached after exactly 100
\* fixed-point steps.
C13_ExactlyIterationsSteps ==
    (rpc = "inverse" /\ AllInvertible) =>
        /\ rxr.ok
        /\ InverseBlocksSteps(Reversed(blocks), ry.val, rt) =
              Tup([i \in 1..Len(blocks) |->
                      [block |-> blocks[Len(blocks) + 1 - i], steps |-> Iterations]],
                  Len(blocks))

(* ============================= load_model ============================== *)
Returned(m) == [status |-> "returned", model |-> m, exc |-> "none", msg |-> <<>>]
Raised(e, m) == [status |-> "raised", model |-> <<>>, exc |-> e, msg |-> m]

\* target_dim is written as a shape: 2 is <<2>>, (1, 24, 24) is <<1, 24, 24>>
Pendulum_reg(target_dim, lsd, cfg, layer_norm, use_cuda_if_available) ==
    [cls |-> "Pendulum_reg", target_dim |-> target_dim, lsd |-> lsd,
     layer_norm |-> layer_norm, use_cuda_if_available |-> use_cuda_if_available,
     bernoulli_output |-> "default", hidden_units |-> "unused"]

Pendulum(target_dim, lsd, cfg, layer_norm, use_cuda_if_available, bernoulli_output) ==
    [cls |-> "Pendulum", target_dim |-> target_dim, lsd |-> lsd,
     layer_norm |-> layer_norm, use_cuda_if_available |-> use_cuda_if_available,
     bernoulli_output |-> bernoulli_output, hidden_units |-> "unused"]

Physionet_USHCN(target_dim, lsd, cfg, use_cuda_if_available) ==
    [cls |-> "Physionet_USHCN", target_dim |-> target_dim, lsd |-> lsd,
     layer_norm |-> "unused", use_cuda_if_available |-> use_cuda_if_available,
     bernoulli_output |-> "default", hidden_units |-> cfg.hidden_units]

\* the interpreter's message for reading the local `model` that no branch bound
UnboundLocalMsg ==
    <<"cannot", "access", "local", "variable", "'model'", "where", "it", "is",
      "not", "associated", "with", "a", "value">>

\* faulty variant: the target dimensions of ushcn and physionet are exchanged
load_model_Swapped(cfg) ==
    IF cfg.dataset = "pendulum"
    THEN IF cfg.task = "regression"
         THEN Returned(Pendulum_reg(<<2>>, cfg.latent_state_dim, cfg, FALSE, TRUE))
         ELSE IF cfg.task = "interpolation"
         THEN Returned(Pendulum(<<1, 24, 24>>, cfg.latent_state_dim, cfg, TRUE, TRUE, TRUE))
         ELSE Raised("Exception", <<"Task", "not", "available", "for", "Pendulum", "data">>)
    ELSE IF cfg.dataset = "ushcn"
    THEN Returned(Physionet_USHCN(<<37>>, cfg.latent_state_dim, cfg, TRUE))
    ELSE IF cfg.dataset = "physionet"
    THEN Returned(Physionet_USHCN(<<5>>, cfg.latent_state_dim, cfg, TRUE))
    ELSE Raised("UnboundLocalError", UnboundLocalMsg)

load_model(cfg) ==
    IF cfg.dataset = "pendulum"
    THEN IF cfg.task = "regression"
         THEN Returned(Pendulum_reg(<<2>>, cfg.latent_state_dim, cfg, FALSE, TRUE))
         ELSE IF cfg.task = "interpolation"
         THEN Returned(Pendulum(<<1, 24, 24>>, cfg.latent_state_dim, cfg, TRUE, TRUE, TRUE))
         ELSE Raised("Exception", <<"Task", "not", "available", "for", "Pendulum", "data">>)
    ELSE IF cfg.dataset = "ushcn"
    THEN Returned(Physionet_USHCN(<<5>>, cfg.latent_state_dim, cfg, TRUE))
    ELSE IF cfg.dataset = "physionet"
    THEN Returned(Physionet_USHCN(<<37>>, cfg.latent_state_dim, cfg, TRUE))
    ELSE Raised("UnboundLocalError", UnboundLocalMsg)   \* return model, never assigned

Datasets == {"pendulum", "ushcn", "physionet"}
Tasks == {"regression", "interpolation"}

InitLoad ==
    /\ configs \in [dataset : Datasets \cup {"mimic", "Pendulum"},
                    task : Tasks \cup {"extrapolation", "classification"},
                    latent_state_dim : 1..MaxLsd,
                    hidden_units : {4}]
    /\ ret = [status |-> "pending"]
    /\ IdleFlow /\ IdleRes /\ IdleFilter /\ IdleMLP

\* model = load_model(configs)
LoadModel ==
    /\ ret.status = "pending"
    /\ ret' = load_model(configs)
    /\ UNCHANGED <<configs, flowVars, resVars, filterVars, mlpVars>>

NextLoad == LoadModel

SpecLoad == InitLoad /\ [][NextLoad]_vars

Called == ret.status \in {"returned", "raised"}
Names(msg, v) == \E i \in 1..Len(msg) : msg[i] = v

\* C5: load_model raises, and returns no model, for every pair whose dataset
\* is not pendulum/ushcn/physionet or whose task is not regression/interpolation.
C5_UnsupportedRaises ==
    (Called /\ (configs.dataset \notin Datasets \/ configs.task \notin Tasks)) =>
        ret.status = "raised"

\* C6: the error load_model raises names the invalid option: the dataset
\* value for an unknown dataset, the task value for an unknown task.
C6_ErrorNamesOption ==
    (ret.status = "raised") =>
        /\ configs.dataset \notin Datasets => Names(ret.msg, configs.dataset)
        /\ (configs.dataset \in Datasets /\ configs.task \notin Tasks) =>
              Names(ret.msg, configs.task)

\* C7: on supported pairs load_model returns Pendulum_reg (target_dim 2, no
\* layer norm) for (pendulum, regression), Pendulum (target_dim (1, 24, 24),
\* layer norm, Bernoulli output) for (pendulum, interpolation),
\* Physionet_USHCN with target_dim 5 for ushcn and 37 for physionet whatever
\* the task, always with lsd = configs.latent_state_dim.
C7_ModelSelection ==
    (Called /\ configs.dataset \in Datasets /\ configs.task \in Tasks) =>
        /\ ret.status = "returned"
        /\ ret.model.lsd = configs.latent_state_dim
        /\ (configs.dataset = "pendulum" /\ configs.task = "regression") =>
              /\ ret.model.cls = "Pendulum_reg"
              /\ ret.model.target_dim = <<2>>
              /\ ret.model.layer_norm = FALSE
        /\ (configs.dataset = "pendulum" /\ configs.task = "interpolation") =>
              /\ ret.model.cls = "Pendulum"
              /\ ret.model.target_dim = <<1, 24, 24>>
              /\ ret.model.layer_norm = TRUE
              /\ ret.model.bernoulli_output = TRUE
        /\ configs.dataset = "ushcn" =>
              ret.model.cls = "Physionet_USHCN" /\ ret.model.target_dim = <<5>>
        /\ configs.dataset = "physionet" =>
              ret.model.cls = "Physionet_USHCN" /\ ret.model.target_dim = <<37>>

C7_Witness ==
    /\ ret.status = "returned"
    /\ configs.dataset = "physionet" /\ configs.task = "interpolation"
    /\ configs.latent_state_dim = 2
    /\ ret.model.target_dim = <<37>> /\ ret.model.lsd = 2

(* ===================== CRU filter recursion (lib.CRU) ================== *)
\* Latent dimension Dim, observation model H = I, all matrices diagonal and
\* written as the vector of their diagonal; the continuous-time transition
\* matrix has the diagonal entries ln(q).
ProcessNoise == Tup([i \in 1..Dim |-> RNorm(1, 2)], Dim)
ObsNoise == Tup([i \in 1..Dim |-> R(1)], Dim)
PriorMean == Tup([i \in 1..Dim |-> R(i)], Dim)
PriorCov == Tup([i \in 1..Dim |-> R(1)], Dim)
Obs(k) == Tup([i \in 1..Dim |-> R(Pick(IntVals, k + i))], Dim)

\* faulty variant: the noise increment is integrated over one time unit too many
ContinuousLinearizer_Offset(A, Q, dt) ==
    <<Tup([i \in 1..Len(A) |-> Exp(Mul(A[i], IntR(dt)))], Len(A)),
      Tup([i \in 1..Len(Q) |-> RMul(Q[i], R(dt + 1))], Len(Q))>>

\* A_d = exp(A * dt) in closed form, Q_d = Q * dt
ContinuousLinearizer(A, Q, dt) ==
    <<Tup([i \in 1..Len(A) |-> Exp(Mul(A[i], IntR(dt)))], Len(A)),
      Tup([i \in 1..Len(Q) |-> RMul(Q[i], R(dt))], Len(Q))>>

\* mean <- A_d mean ; covariance <- A_d covariance A_d^T + Q_d
Predict(st, lin) ==
    [mean |-> VMul(lin[1], st.mean),
     cov |-> VAdd(VMul(lin[1], VMul(st.cov, lin[1])), lin[2])]

\* on the observed dimensions: r = obs - mean, S = cov + R, K = cov / S,
\* mean <- mean + K r, covariance <- (1 - K) covariance
Update(st, obs, mask) ==
    LET K == Tup([i \in 1..Len(mask) |->
                    IF mask[i] THEN RDiv(st.cov[i], RAdd(st.cov[i], ObsNoise[i])) ELSE R(0)],
                 Len(mask))
    IN  [mean |-> VAdd(st.mean, VMul(K, VSub(obs, st.mean))),
         cov |-> Tup([i \in 1..Len(mask) |-> RMul(RSub(R(1), K[i]), st.cov[i])], Len(mask))]

\* faulty variant: a step is updated only when every entry is observed
AnyObserved_All(mask) == \A i \in 1..Len(mask) : mask[i]

\* at least one entry of the observation mask is true
AnyObserved(mask) == \E i \in 1..Len(mask) : mask[i]

MaskPatterns ==
    {Tup([i \in 1..Dim |-> TRUE], Dim), Tup([i \in 1..Dim |-> FALSE], Dim),
     Tup([i \in 1..Dim |-> i = 1], Dim)}

RECURSIVE SeqsOfLen(_, _)
SeqsOfLen(S, n) ==
    IF n = 0 THEN {<<>>} ELSE {Append(s, e) : s \in SeqsOfLen(S, n - 1), e \in S}

InitFilter ==
    /\ fA \in {Tup([i \in 1..Dim |-> LogR(Pick(ScaleVals, s + i))], Dim) : s \in 0..1}
    /\ \E T \in 1..MaxT :
          /\ fgaps \in SeqsOfLen({0, 1}, T)
          /\ fmasks \in SeqsOfLen(MaskPatterns, T)
    /\ fk = 0
    /\ fmean = PriorMean /\ fcov = PriorCov
    /\ ftraj = <<>> /\ flog = <<>>
    /\ IdleFlow /\ IdleRes /\ IdleLoad /\ IdleMLP

\* one time step of the recursion: Predict over the gap, then Update when an
\* entry of the step's mask is true
FilterStep ==
    /\ fk < Len(fgaps)
    /\ LET k == fk + 1
           prior == Predict([mean |-> fmean, cov |-> fcov],
                            ContinuousLinearizer(fA, ProcessNoise, fgaps[k]))
           upd == AnyObserved(fmasks[k])
           post == IF upd THEN Update(prior, Obs(k), fmasks[k]) ELSE prior
       IN  /\ fk' = k
           /\ fmean' = post.mean
           /\ fcov' = post.cov
           /\ ftraj' = Append(ftraj, [prior |-> prior, post |-> post])
           /\ flog' = Append(flog, IF upd THEN <<"Predict", "Update">> ELSE <<"Predict">>)
    /\ UNCHANGED <<fA, fgaps, fmasks, flowVars, resVars, loadVars, mlpVars>>

NextFilter == FilterStep

SpecFilter == InitFilter /\ [][NextFilter]_vars

\* the posterior that step j starts from
PostBefore(j) == IF j = 1 THEN [mean |-> PriorMean, cov |-> PriorCov] ELSE ftraj[j - 1].post

NoneObserved(mask) == \A i \in 1..Len(mask) : ~mask[i]

\* C9: a step whose mask is entirely false performs Predict only and records
\* the pure-Predict propagation of the previous posterior; for any mask
\* pattern Update happens exactly at the steps with a true mask entry, and
\* after that step's Predict.
C9_PredictOnlyWhenMasked ==
    \A j \in 1..fk :
        LET pure == Predict(PostBefore(j),
                            ContinuousLinearizer(fA, ProcessNoise, fgaps[j]))
        IN  /\ ftraj[j].prior = pure
            /\ NoneObserved(fmasks[j]) => (ftraj[j].post = pure /\ flog[j] = <<"Predict">>)
            /\ ~NoneObserved(fmasks[j]) =>
                  /\ flog[j] = <<"Predict", "Update">>
                  /\ ftraj[j].post = Update(pure, Obs(j), fmasks[j])
                  /\ ftraj[j].post # pure

C9_Witness ==
    /\ fk = 3
    /\ fgaps = <<1, 1, 1>>
    /\ AnyObserved(fmasks[1]) /\ NoneObserved(fmasks[2])
    /\ AnyObserved(fmasks[3]) /\ ~AnyObserved_All(fmasks[3])
    /\ flog = <<<<"Predict", "Update">>, <<"Predict">>, <<"Predict", "Update">>>>
    /\ ftraj[2].post # ftraj[1].post

Ones(n) == Tup([i \in 1..n |-> R(1)], n)
Zeros(n) == Tup([i \in 1..n |-> R(0)], n)

\* C10: for a gap of exactly 0 the linearizer returns the identity transition
\* and zero process noise, and Predict leaves mean and covariance unchanged.
C10_ZeroGapIdentity ==
    \A j \in 1..fk :
        fgaps[j] = 0 =>
            /\ ContinuousLinearizer(fA, ProcessNoise, fgaps[j]) = <<Ones(Dim), Zeros(Dim)>>
            /\ ftraj[j].prior = PostBefore(j)

C10_Witness ==
    /\ fk = 2
    /\ fgaps[1] = 1 /\ fgaps[2] = 0
    /\ ftraj[2].prior = ftraj[1].post
    /\ ftraj[1].prior # [mean |-> PriorMean, cov |-> PriorCov]

(* ============================ stribor MLP ============================== *)
\* nn.Linear(in_features, out_features): the bias starts at random values
nn_Linear(in_features, out_features) ==
    [type |-> "Linear", in_features |-> in_features, out_features |-> out_features,
     bias_zero |-> FALSE, wrapped_by |-> <<>>]

\* getattr(nn, name)()
nn_Activation(name) == [type |-> "Activation", name |-> name]

\* nn_linear_wrapper_func(layer); `lambda x: x` when no wrapper was given
Wrap(nn_linear_wrapper_func, layer) ==
    IF nn_linear_wrapper_func = None THEN layer
    ELSE [layer EXCEPT !.wrapped_by = Append(@, nn_linear_wrapper_func[1])]

\* for i in range(len(hidden_dims) - 1): append activation, append wrapped Linear
RECURSIVE MLP_loop(_, _, _, _, _)
MLP_loop(layers, hidden_dims, i, activation, nn_linear_wrapper_func) ==
    IF i > Len(hidden_dims) - 1 THEN layers
    ELSE MLP_loop(layers \o <<activation,
                              Wrap(nn_linear_wrapper_func,
                                   nn_Linear(hidden_dims[i], hidden_dims[i + 1]))>>,
                  hidden_dims, i + 1, activation, nn_linear_wrapper_func)

\* MLP.__init__: the layers of self.net and the caller's list after the call
MLP_init(in_dim, hidden_dims_arg, out_dim, activation_arg, final_activation_arg, wrapper) ==
    LET activation == nn_Activation(activation_arg)
        hidden_dims == Append(hidden_dims_arg, out_dim)      \* of the copy [:]
        first == <<nn_Linear(in_dim, hidden_dims[1])>>
        looped == MLP_loop(first, hidden_dims, 1, activation, wrapper)
        zeroed == [looped EXCEPT ![Len(looped)].bias_zero = TRUE]
        layers == IF final_activation_arg # None
                  THEN Append(zeroed, nn_Activation(final_activation_arg[1]))
                  ELSE zeroed
    IN  [net |-> layers, hidden_dims |-> hidden_dims_arg]

DimVals == {1, 2}
HiddenVals == {2, 3}

InitMLP ==
    /\ mlp_args \in [in_dim : DimVals, hidden_dims : SeqsUpTo(HiddenVals, MaxLen),
                     out_dim : DimVals, activation : {"Tanh", "ReLU"},
                     final_activation : {None, Some("Sigmoid")},
                     nn_linear_wrapper_func : {None, Some("spectral_norm")}]
    /\ caller_hidden_dims = mlp_args.hidden_dims
    /\ mlp = None
    /\ IdleFlow /\ IdleRes /\ IdleLoad /\ IdleFilter

\* MLP(in_dim, hidden_dims, out_dim, activation, final_activation, nn_linear_wrapper_func)
NewMLP ==
    /\ mlp = None
    /\ LET r == MLP_init(mlp_args.in_dim, caller_hidden_dims, mlp_args.out_dim,
                         mlp_args.activation, mlp_args.final_activation,
                         mlp_args.nn_linear_wrapper_func)
       IN  /\ mlp' = Some(r.net)
           /\ caller_hidden_dims' = r.hidden_dims
    /\ UNCHANGED <<mlp_args, flowVars, resVars, loadVars, filterVars>>

NextMLP == NewMLP

SpecMLP == InitMLP /\ [][NextMLP]_vars

LinearLayers(layers) == {i \in 1..Len(layers) : layers[i].type = "Linear"}

\* n + 1 linear layers chained in_dim -> hidden_dims -> out_dim with the
\* activation between each consecutive pair, final_activation last only when
\* given, the bias of the last linear layer at zero, the caller's list as it was
MLP_Layout ==
    mlp # None =>
        LET layers == mlp[1]
            n == Len(mlp_args.hidden_dims)
            dims == <<mlp_args.in_dim>> \o mlp_args.hidden_dims \o <<mlp_args.out_dim>>
        IN  /\ LinearLayers(layers) = {2 * k - 1 : k \in 1..(n + 1)}
            /\ \A k \in 1..(n + 1) :
                  /\ layers[2 * k - 1].in_features = dims[k]
                  /\ layers[2 * k - 1].out_features = dims[k + 1]
            /\ \A k \in 1..n : layers[2 * k] = nn_Activation(mlp_args.activation)
            /\ Len(layers) = 2 * n + 1 + (IF mlp_args.final_activation = None THEN 0 ELSE 1)
            /\ mlp_args.final_activation # None =>
                  layers[Len(layers)] = nn_Activation(mlp_args.final_activation[1])
            /\ layers[2 * n + 1].bias_zero
            /\ caller_hidden_dims = mlp_args.hidden_dims

\* C15: the stribor MLP has n + 1 linear layers for hidden_dims of length n,
\* every one of them passed through nn_linear_wrapper_func, the activation
\* between consecutive linear layers, final_activation last only when given,
\* the last linear layer's bias at zero and the caller's hidden_dims unmodified.
C15_EveryLinearWrapped ==
    /\ MLP_Layout
    /\ (mlp # None /\ mlp_args.nn_linear_wrapper_func # None) =>
          \A i \in LinearLayers(mlp[1]) :
             mlp[1][i].wrapped_by = <<mlp_args.nn_linear_wrapper_func[1]>>

\* only the first linear layer escapes the wrapper
C15_AllButFirstWrapped ==
    (mlp # None /\ mlp_args.nn_linear_wrapper_func # None) =>
        /\ mlp[1][1].wrapped_by = <<>>
        /\ \A i \in LinearLayers(mlp[1]) \ {1} :
              mlp[1][i].wrapped_by = <<mlp_args.nn_linear_wrapper_func[1]>>

====
